---- MODULE Spec2Model ----
(***************************************************************************)
(* Multi-Agent Debate System: the turn-order state machine, the memory /   *)
(* repetition validation engine and the Judge, under both drivers          *)
(* (DebateRunner's controller graph and DebateSystem.run's for-loop).      *)
(*                                                                         *)
(* Texts are sequences of one-character strings, so that len(), slicing,   *)
(* lower(), strip(), split() and difflib's SequenceMatcher are modelled by *)
(* what they compute.  Scores are exact fractions <<num, den>>.            *)
(***************************************************************************)
EXTENDS Integers, Sequences, FiniteSets, TLC

\* ------------------------------------------------------------------------
\* Bounds of the model
\* ------------------------------------------------------------------------
\* total_rounds ranges over 1..MaxTotalRounds
MaxTotalRounds == 3
\* the controller is not run once current_round has reached MaxRoundNo
MaxRoundNo == 5

\* ------------------------------------------------------------------------
\* Local variables: Op applied to the value of v, v being computed once
\* (a Python assignment "x = v" followed by code that reads x)
\* ------------------------------------------------------------------------
With(v, Op(_)) == CHOOSE r \in {Op(x) : x \in {v}} : TRUE

\* ------------------------------------------------------------------------
\* Text primitives (Python str operations)
\* ------------------------------------------------------------------------
IsSpace(c) == c \in {" ", "\n", "\t"}

\* str.lower() on one character
LowerChar(c) ==
    CASE c = "A" -> "a" [] c = "B" -> "b" [] c = "C" -> "c" [] c = "D" -> "d"
      [] c = "E" -> "e" [] c = "F" -> "f" [] c = "G" -> "g" [] c = "H" -> "h"
      [] c = "I" -> "i" [] c = "J" -> "j" [] c = "K" -> "k" [] c = "L" -> "l"
      [] c = "M" -> "m" [] c = "N" -> "n" [] c = "O" -> "o" [] c = "P" -> "p"
      [] c = "Q" -> "q" [] c = "R" -> "r" [] c = "S" -> "s" [] c = "T" -> "t"
      [] c = "U" -> "u" [] c = "V" -> "v" [] c = "W" -> "w" [] c = "X" -> "x"
      [] c = "Y" -> "y" [] c = "Z" -> "z" [] OTHER -> c

Lower(s) == [i \in 1..Len(s) |-> LowerChar(s[i])]

\* the least element of a set of integers, or otherwise when it is empty
Least(S, otherwise) == IF S = {} THEN otherwise ELSE CHOOSE m \in S : \A x \in S : m <= x

Smaller(m, n) == IF m < n THEN m ELSE n

\* str.lstrip(), str.rstrip(), str.strip()
LStrip(s) == SubSeq(s, Least({i \in 1..Len(s) : ~IsSpace(s[i])}, Len(s) + 1), Len(s))

RStrip(s) == SubSeq(s, 1, Len(s) - Least({t \in 0..(Len(s) - 1) : ~IsSpace(s[Len(s) - t])}, Len(s)))

Strip(s) == RStrip(LStrip(s))

\* s[:n]
Prefix(s, n) == SubSeq(s, 1, IF Len(s) < n THEN Len(s) ELSE n)

\* s[-n:] for a list
LastN(s, n) == IF Len(s) <= n THEN s ELSE SubSeq(s, Len(s) - n + 1, Len(s))

\* str.split() with no argument: the list of maximal runs of non-whitespace
WordStarts(s) == {i \in 1..Len(s) : ~IsSpace(s[i]) /\ (i = 1 \/ IsSpace(s[i - 1]))}

\* the last index of the run of non-whitespace that starts at s[i]
WordEnd(s, i) == Least({j \in i..(Len(s) - 1) : IsSpace(s[j + 1])}, Len(s))

Split(s) ==
    With(WordStarts(s), LAMBDA starts :
        [k \in 1..Cardinality(starts) |->
            With(CHOOSE i \in starts : Cardinality({j \in starts : j < i}) = k - 1,
                 LAMBDA i : SubSeq(s, i, WordEnd(s, i)))])

\* set(s.split())
WordSet(s) == With(Split(s), LAMBDA w : {w[i] : i \in 1..Len(w)})

\* sub in s
Contains(s, sub) ==
    \E t \in {s}, u \in {sub} :
        \E i \in 0..(Len(t) - Len(u)) : \A k \in 1..Len(u) : t[i + k] = u[k]

\* sep.join(parts)
RECURSIVE JoinFrom(_, _, _)
JoinFrom(sep, parts, i) ==
    IF i > Len(parts) THEN <<>>
    ELSE IF i = Len(parts) THEN parts[i]
    ELSE parts[i] \o sep \o JoinFrom(sep, parts, i + 1)

Join(sep, parts) == With(<<sep, parts>>, LAMBDA sp : JoinFrom(sp[1], sp[2], 1))

\* [x for x in s if P(x)]
RECURSIVE SelectAgent(_, _)
SelectAgent(ts, agent) ==
    IF ts = <<>> THEN <<>>
    ELSE IF Head(ts).agent = agent
         THEN <<Head(ts)>> \o SelectAgent(Tail(ts), agent)
         ELSE SelectAgent(Tail(ts), agent)

\* str(n) for a non-negative integer
Digit(d) ==
    CASE d = 0 -> "0" [] d = 1 -> "1" [] d = 2 -> "2" [] d = 3 -> "3" [] d = 4 -> "4"
      [] d = 5 -> "5" [] d = 6 -> "6" [] d = 7 -> "7" [] d = 8 -> "8" [] OTHER -> "9"

RECURSIVE IntToStr(_)
IntToStr(n) == IF n < 10 THEN <<Digit(n)>> ELSE Append(IntToStr(n \div 10), Digit(n % 10))

\* ------------------------------------------------------------------------
\* Fractions <<num, den>> with den > 0
\* ------------------------------------------------------------------------
FracGT(x, y) == x[1] * y[2] > y[1] * x[2]
FracGE(x, y) == x[1] * y[2] >= y[1] * x[2]
FracEQ(x, y) == x[1] * y[2] = y[1] * x[2]
FracMax(x, y) == With(<<x, y>>, LAMBDA p : IF FracGT(p[2], p[1]) THEN p[2] ELSE p[1])
FracAdd(x, y) ==
    With(<<x, y>>, LAMBDA p : <<p[1][1] * p[2][2] + p[2][1] * p[1][2], p[1][2] * p[2][2]>>)

\* ------------------------------------------------------------------------
\* difflib.SequenceMatcher(None, a, b).ratio()
\* ------------------------------------------------------------------------
CountOf(b, c) == Cardinality({j \in 1..Len(b) : b[j] = c})

\* autojunk: in a b of 200 or more elements, the elements occurring more
\* than len(b) // 100 + 1 times are dropped from the index b2j
Popular(b) ==
    IF Len(b) >= 200
    THEN {c \in {b[j] : j \in 1..Len(b)} : CountOf(b, c) > Len(b) \div 100 + 1}
    ELSE {}

\* j2len: length of the run of indexed matches ending at a[i], b[j]
RunLen(a, b, i, j, alo, blo, pop) ==
    With(Smaller(i - alo, j - blo) + 1, LAMBDA n :
        Least({t \in 0..(n - 1) : a[i - t] # b[j - t] \/ b[j - t] \in pop}, n))

\* how far the block at a[i], b[j] extends to the left over equal elements
LeftExt(a, b, i, j, alo, blo) ==
    With(Smaller(i - alo, j - blo), LAMBDA n :
        Least({t \in 0..(n - 1) : a[i - t - 1] # b[j - t - 1]}, n))

\* how far the block that ends before a[i], b[j] extends to the right
RightExt(a, b, i, j, ahi, bhi) ==
    With(Smaller(ahi - i, bhi - j), LAMBDA n :
        Least({t \in 0..(n - 1) : a[i + t] # b[j + t]}, n))

\* the indexed matches <<i, j>> of a[alo..ahi-1] with b[blo..bhi-1] (1-based,
\* ahi and bhi exclusive), each with the length k of the run that ends there
Runs(a, b, alo, ahi, blo, bhi, pop) ==
    {<<p[1], p[2], RunLen(a, b, p[1], p[2], alo, blo, pop)>> :
        p \in {q \in (alo..(ahi - 1)) \X {j \in blo..(bhi - 1) : b[j] \notin pop} :
                    a[q[1]] = b[q[2]]}}

\* the first run in scan order (i, then j) among the longest ones
BestRun(runs) ==
    CHOOSE e \in runs : \A q \in runs :
        \/ e[3] > q[3]
        \/ e[3] = q[3] /\ (e[1] < q[1] \/ (e[1] = q[1] /\ e[2] <= q[2]))

\* the block that starts at a[i0], b[j0] with size k, extended on both sides
Extend(a, b, alo, ahi, blo, bhi, i0, j0, k) ==
    With(<<LeftExt(a, b, i0, j0, alo, blo), RightExt(a, b, i0 + k, j0 + k, ahi, bhi)>>,
         LAMBDA lr : <<i0 - lr[1], j0 - lr[1], k + lr[1] + lr[2]>>)

\* find_longest_match: <<i, j, k>>
FindLongestMatch(a, b, alo, ahi, blo, bhi, pop) ==
    With(Runs(a, b, alo, ahi, blo, bhi, pop), LAMBDA runs :
        IF runs = {} THEN Extend(a, b, alo, ahi, blo, bhi, alo, blo, 0)
        ELSE With(BestRun(runs), LAMBDA e :
                Extend(a, b, alo, ahi, blo, bhi, e[1] - e[3] + 1, e[2] - e[3] + 1, e[3])))

\* get_matching_blocks: total size of the matching blocks
RECURSIVE MatchedChars(_, _, _, _, _, _, _)
MatchedChars(a, b, alo, ahi, blo, bhi, pop) ==
    With(FindLongestMatch(a, b, alo, ahi, blo, bhi, pop), LAMBDA m :
        IF m[3] = 0 THEN 0
        ELSE m[3]
             + (IF alo < m[1] /\ blo < m[2]
                THEN MatchedChars(a, b, alo, m[1], blo, m[2], pop) ELSE 0)
             + (IF m[1] + m[3] < ahi /\ m[2] + m[3] < bhi
                THEN MatchedChars(a, b, m[1] + m[3], ahi, m[2] + m[3], bhi, pop) ELSE 0))

\* a ratio() that gives 0.0 for two empty sequences
SeqRatioEmptyZero(a, b) ==
    IF Len(a) + Len(b) = 0 THEN <<0, 1>>
    ELSE With(Popular(b), LAMBDA pop :
            <<2 * MatchedChars(a, b, 1, Len(a) + 1, 1, Len(b) + 1, pop), Len(a) + Len(b)>>)

\* ratio(): 2.0 * matches / length if length else 1.0
SeqRatio(a, b) ==
    IF Len(a) + Len(b) = 0 THEN <<1, 1>>
    ELSE With(Popular(b), LAMBDA pop :
            <<2 * MatchedChars(a, b, 1, Len(a) + 1, 1, Len(b) + 1, pop), Len(a) + Len(b)>>)

\* text.lower().strip()
Normalize(text) == Strip(Lower(text))

\* len(words1.intersection(words2)) / len(words1.union(words2))
WordOverlap(words1, words2) ==
    <<Cardinality(words1 \cap words2), Cardinality(words1 \cup words2)>>

\* a similarity that compares the word sets only
CalculateSimilarityWordsOnly(text1, text2) ==
    With(<<Normalize(text1), Normalize(text2)>>, LAMBDA norm :
        With(<<SeqRatio(norm[1], norm[2]), WordSet(norm[1]), WordSet(norm[2])>>, LAMBDA v :
            IF v[2] # {} /\ v[3] # {}
            THEN WordOverlap(v[2], v[3])
            ELSE v[1]))

\* MemoryNode._calculate_similarity (the value computed on a cache miss)
CalculateSimilarity(text1, text2) ==
    With(<<Normalize(text1), Normalize(text2)>>, LAMBDA norm :
        With(<<SeqRatio(norm[1], norm[2]), WordSet(norm[1]), WordSet(norm[2])>>, LAMBDA v :
            IF v[2] # {} /\ v[3] # {}
            THEN FracMax(v[1], WordOverlap(v[2], v[3]))
            ELSE v[1]))

\* ------------------------------------------------------------------------
\* Literals
\* ------------------------------------------------------------------------
\* a Python string literal as a sequence of characters
RECURSIVE CharsFrom(_, _)
CharsFrom(str, i) ==
    IF i > Len(str) THEN <<>> ELSE <<SubSeq(str, i, i)>> \o CharsFrom(str, i + 1)

Chars(str) == CharsFrom(str, 1)

Rep(c, n) == [i \in 1..n |-> c]

Agents == {"AgentA", "AgentB"}
None == "None"

Scientist == Chars("scientist")
Philosopher == Chars("philosopher")

\* state.py DebateStatus
INITIALIZED == "initialized"
IN_PROGRESS == "in_progress"
COMPLETED == "completed"
ERROR == "error"

\* agent_node.py _validate_response length limits
MinResponseLength == 20
MaxResponseLength == 1000

\* state.py _update_summary
SummaryTurns == 3
SummaryChars == 100
\* state.py get_agent_context
ContextTurns == 4

\* ------------------------------------------------------------------------
\* Inputs: what the response producer and the user may supply
\* ------------------------------------------------------------------------
V1 == Chars("data shows real risk.")
V2 == Chars("Data shows real risk. ")
V3 == Chars("moral duty binds us all")
V4 == Chars("rights need just rules.")
EmptyText == <<>>
BlankText == Chars("   ")
\* shorter than the minimum, and close to V1 (SequenceMatcher ratio 0.95)
ShortText == Chars("data shows real ris")
LongText == Rep("x", MaxResponseLength + 1)

Candidates == {EmptyText, BlankText, ShortText, LongText, V1, V2, V3, V4}

\* the topic argument of DebateSystem.run
Topics == {Chars("do rules bind us or data now"), Chars("data")}

\* what the user may type at UserInputNode's prompt
TopicInputs ==
    {<<>>, Chars("AI?"), Chars("is spam data"), Rep("y", 201),
     Chars(" do rules  bind us or data now")}

\* config.similarity_threshold, as a fraction
Thresholds == {<<80, 100>>, <<95, 100>>}

\* ------------------------------------------------------------------------
\* state.py DebateMemory
\* ------------------------------------------------------------------------
TurnRecord(round, agent, persona, text) ==
    [round |-> round, agent |-> agent, persona |-> persona, text |-> text]

\* t.text[:100] + "..." if len(t.text) > 100 else t.text
Point(text) ==
    IF Len(text) > SummaryChars THEN Prefix(text, SummaryChars) \o Chars("...") ELSE text

RECURSIVE PointsOf(_)
PointsOf(sel) == IF sel = <<>> THEN <<>> ELSE <<Point(Head(sel).text)>> \o PointsOf(Tail(sel))

\* [point(t) for t in self.turns[-3:] if t.agent == agent]
Points(ts, agent) == PointsOf(SelectAgent(LastN(ts, SummaryTurns), agent))

\* DebateMemory._update_summary, given the turns and memory.current_round
UpdateSummary(ts, round) ==
    IF ts = <<>> THEN Chars("Debate not started.")
    ELSE With(<<Points(ts, "AgentA"), Points(ts, "AgentB")>>,
              LAMBDA points :      \* <<agent_a_points, agent_b_points>>
            Join(Chars(" "),
                 <<Chars("Debate is at round ") \o IntToStr(round) \o Chars(".")>>
                 \o (IF points[1] # <<>>
                     THEN <<Chars("AgentA arguments: ") \o Join(Chars(" | "), points[1])>>
                     ELSE <<>>)
                 \o (IF points[2] # <<>>
                     THEN <<Chars("AgentB arguments: ") \o Join(Chars(" | "), points[2])>>
                     ELSE <<>>)))

\* an add_turn that refreshes the summary before the turn is in the list
AddTurnRefreshStale(ts, round) ==
    [current_round |-> round,
     summary |-> UpdateSummary(SubSeq(ts, 1, Len(ts) - 1), round)]

\* DebateMemory.add_turn after self.turns.append(turn): ts is the list with
\* the turn in it and round is turn.round
AddTurnRefresh(ts, round) ==
    [current_round |-> round, summary |-> UpdateSummary(ts, round)]

\* the opponent lines of get_agent_context
RECURSIVE OpponentLines(_, _)
OpponentLines(ts, agent) ==
    IF ts = <<>> THEN <<>>
    ELSE (IF Head(ts).agent # agent
          THEN <<Chars("[") \o Head(ts).persona \o Chars("] ") \o Head(ts).text>>
          ELSE <<>>)
         \o OpponentLines(Tail(ts), agent)

\* a context that lists the opponent's turns of the whole memory
GetAgentContextWhole(ts, sum, agent) ==
    Join(<<"\n">>, <<Chars("Debate summary: ") \o sum>> \o OpponentLines(ts, agent))

\* DebateMemory.get_agent_context
GetAgentContext(ts, sum, agent) ==
    Join(<<"\n">>,
         <<Chars("Debate summary: ") \o sum>> \o OpponentLines(LastN(ts, ContextTurns), agent))

\* ------------------------------------------------------------------------
\* nodes/judge_node.py
\* ------------------------------------------------------------------------
RECURSIVE Gcd(_, _)
Gcd(m, n) == IF n = 0 THEN m ELSE Gcd(n, m % n)

FracNorm(x) ==
    With(x, LAMBDA y :
        With(Gcd(y[1], y[2]), LAMBDA g :
            IF g = 0 THEN y ELSE <<y[1] \div g, y[2] \div g>>))

RECURSIVE FracSum(_)
FracSum(fs) == IF fs = <<>> THEN <<0, 1>> ELSE FracNorm(FracAdd(Head(fs), FracSum(Tail(fs))))

\* sum(scores) / len(scores)
FracAvg(fs) ==
    With(fs, LAMBDA scores :
        With(FracSum(scores), LAMBDA t : FracNorm(<<t[1], t[2] * Len(scores)>>)))

AnyIn(text, words) == \E w \in words : Contains(text, w)
CountIn(text, words) == Cardinality({w \in words : Contains(text, w)})

ScientificTerms ==
    {Chars(w) : w \in {"evidence", "data", "study", "research", "empirical", "analysis",
                       "statistics"}}
ScientificLogic == {Chars(w) : w \in {"therefore", "conclusion", "because", "since"}}
ScientificExamples == {Chars(w) : w \in {"example", "instance", "case study"}}
PhiloTerms ==
    {Chars(w) : w \in {"ethical", "moral", "justice", "principle", "virtue", "duty", "rights"}}
PhiloLogic == {Chars(w) : w \in {"argument", "premise", "conclusion", "logic", "fallacy"}}
PhiloPerspectives ==
    {Chars(w) : w \in {"on the other hand", "however", "consider", "perspective"}}

\* a turn's quality score without min(score, 1.0), in twentieths
TurnQualityUncapped(turn_text, persona) ==
    With(Lower(turn_text), LAMBDA text :
        10
        + (IF persona = Scientist
           THEN 2 * CountIn(text, ScientificTerms)
                + (IF AnyIn(text, ScientificLogic) THEN 2 ELSE 0)
                + (IF AnyIn(text, ScientificExamples) THEN 1 ELSE 0)
           ELSE IF persona = Philosopher
           THEN 2 * CountIn(text, PhiloTerms)
                + (IF AnyIn(text, PhiloLogic) THEN 2 ELSE 0)
                + (IF AnyIn(text, PhiloPerspectives) THEN 1 ELSE 0)
           ELSE 0)
        - (IF Len(text) < 50 THEN 4 ELSE 0))

\* one turn's quality score, in twentieths (0.05)
TurnQuality(turn_text, persona) ==
    With(Lower(turn_text), LAMBDA text :
        With(10
             + (IF persona = Scientist
                THEN 2 * CountIn(text, ScientificTerms)
                     + (IF AnyIn(text, ScientificLogic) THEN 2 ELSE 0)
                     + (IF AnyIn(text, ScientificExamples) THEN 1 ELSE 0)
                ELSE IF persona = Philosopher
                THEN 2 * CountIn(text, PhiloTerms)
                     + (IF AnyIn(text, PhiloLogic) THEN 2 ELSE 0)
                     + (IF AnyIn(text, PhiloPerspectives) THEN 1 ELSE 0)
                ELSE 0)
             - (IF Len(text) < 50 THEN 4 ELSE 0),
             LAMBDA score : IF score < 20 THEN score ELSE 20))

\* JudgeNode._assess_argument_quality
RECURSIVE QualityScores(_, _, _)
QualityScores(ts, persona, i) ==
    IF i > Len(ts) THEN <<>>
    ELSE << <<TurnQuality(ts[i].text, persona), 20>> >> \o QualityScores(ts, persona, i + 1)

AssessArgumentQuality(ts, persona) ==
    IF ts = <<>> THEN <<0, 1>> ELSE FracAvg(QualityScores(ts, persona, 1))

CommonWords ==
    {Chars(w) : w \in {"the", "a", "an", "and", "or", "but", "in", "on", "at", "to", "for",
                       "of", "with", "by"}}

RECURSIVE CoherenceScores(_, _)
CoherenceScores(ts, i) ==
    IF i > Len(ts) THEN <<>>
    ELSE With(<<WordSet(Lower(ts[i - 1].text)) \ CommonWords,
                WordSet(Lower(ts[i].text)) \ CommonWords>>,
              LAMBDA kw :   \* <<prev_keywords, curr_keywords>>
                 IF kw[1] # {}
                 THEN << <<Cardinality(kw[1] \cap kw[2]), Cardinality(kw[1])>> >>
                 ELSE <<>>)
         \o CoherenceScores(ts, i + 1)

\* a coherence score that is 0 when there is nothing to compare
AssessCoherenceEmptyZero(ts) ==
    IF Len(ts) < 2 THEN <<0, 1>>
    ELSE With(CoherenceScores(ts, 2), LAMBDA coherence_scores :
            IF coherence_scores # <<>> THEN FracAvg(coherence_scores) ELSE <<0, 1>>)

\* JudgeNode._assess_coherence
AssessCoherence(ts) ==
    IF Len(ts) < 2 THEN <<1, 1>>
    ELSE With(CoherenceScores(ts, 2), LAMBDA coherence_scores :
            IF coherence_scores # <<>> THEN FracAvg(coherence_scores) ELSE <<1, 1>>)

\* the relevance score of each turn, from turn i on
RECURSIVE RelevanceScores(_, _, _)
RelevanceScores(ts, topic_keywords, i) ==
    IF i > Len(ts) THEN <<>>
    ELSE << IF topic_keywords # {}
            THEN <<Cardinality(topic_keywords \cap WordSet(Lower(ts[i].text))),
                   Cardinality(topic_keywords)>>
            ELSE <<1, 2>> >>
         \o RelevanceScores(ts, topic_keywords, i + 1)

\* JudgeNode._assess_relevance
AssessRelevance(ts, topic) ==
    IF ts = <<>> THEN <<0, 1>>
    ELSE With(WordSet(Lower(topic)), LAMBDA topic_keywords :
            FracAvg(RelevanceScores(ts, topic_keywords, 1)))

\* JudgeNode._check_turn_alternation
CheckTurnAlternation(ts) == \A i \in 2..Len(ts) : ts[i].agent # ts[i - 1].agent

\* quality * 0.4 + coherence * 0.3 + relevance * 0.3
OverallScore(q, c, r) ==
    FracNorm(FracAdd(<<4 * q[1], 10 * q[2]>>,
                     FracAdd(<<3 * c[1], 10 * c[2]>>, <<3 * r[1], 10 * r[2]>>)))

\* JudgeNode._analyze_debate
AgentAnalysis(agent_turns, persona, topic) ==
    [turns_count |-> Len(agent_turns),
     argument_quality |-> AssessArgumentQuality(agent_turns, persona),
     coherence_score |-> AssessCoherence(agent_turns),
     relevance_score |-> AssessRelevance(agent_turns, topic)]

AnalyzeDebate(ts, topic, persona_a, persona_b, rc) ==
    With(<<SelectAgent(ts, "AgentA"), SelectAgent(ts, "AgentB")>>, LAMBDA agent_turns :
        [agent_a |-> AgentAnalysis(agent_turns[1], persona_a, topic),
         agent_b |-> AgentAnalysis(agent_turns[2], persona_b, topic),
         debate_flow |-> [total_rounds |-> rc,
                          alternating_turns |-> CheckTurnAlternation(ts),
                          topic_adherence |-> AssessRelevance(ts, topic)]])

AgentScore(m) == OverallScore(m.argument_quality, m.coherence_score, m.relevance_score)

\* f"{x:.2f}" of a non-negative fraction (round half to even on the exact value)
Fmt2(x) ==
    With(<<(100 * x[1]) \div x[2], (100 * x[1]) % x[2], x[2]>>, LAMBDA qr :
        With(IF 2 * qr[2] > qr[3] \/ (2 * qr[2] = qr[3] /\ qr[1] % 2 = 1)
             THEN qr[1] + 1 ELSE qr[1],
             LAMBDA h : IntToStr(h \div 100) \o <<".", Digit((h % 100) \div 10),
                                                   Digit((h % 100) % 10)>>))

\* a winner selection whose tie-break ignores the personas
DetermineWinnerTieToA(persona_a, persona_b, analysis) ==
    IF FracGT(AgentScore(analysis.agent_b), AgentScore(analysis.agent_a))
    THEN <<"AgentB", Chars("AgentB (") \o persona_b \o Chars(")")>>
    ELSE <<"AgentA", Chars("AgentA (") \o persona_a \o Chars(")")>>

\* JudgeNode._determine_winner: <<winner, reasoning>>
DetermineWinner(persona_a, persona_b, analysis) ==
    With(<<AgentScore(analysis.agent_a), AgentScore(analysis.agent_b)>>,
         LAMBDA score :     \* <<agent_a_score, agent_b_score>>
        IF FracGT(score[1], score[2])
        THEN <<"AgentA",
               Chars("AgentA (") \o persona_a
               \o Chars(") demonstrated stronger arguments with better evidence and logical structure. Score: ")
               \o Fmt2(score[1]) \o Chars(" vs ") \o Fmt2(score[2])>>
        ELSE IF FracGT(score[2], score[1])
        THEN <<"AgentB",
               Chars("AgentB (") \o persona_b
               \o Chars(") presented more coherent and relevant arguments. Score: ")
               \o Fmt2(score[2]) \o Chars(" vs ") \o Fmt2(score[1])>>
        ELSE IF persona_a = Scientist
        THEN <<"AgentA",
               Chars("Debate was tied, but AgentA (") \o persona_a
               \o Chars(") wins for evidence-based reasoning.")>>
        ELSE <<"AgentB",
               Chars("Debate was tied, but AgentB (") \o persona_b
               \o Chars(") wins for ethical and logical analysis.")>>)

SummaryLine(turn) ==
    Chars("[") \o turn.persona \o Chars(" - Round ") \o IntToStr(turn.round) \o Chars("] ")
    \o Prefix(turn.text, 150) \o (IF Len(turn.text) > 150 THEN Chars("...") ELSE <<>>)

\* JudgeNode._generate_summary
GenerateSummary(ts, topic, persona_a, persona_b, rc, analysis) ==
    Join(<<"\n">>,
         <<Chars("Debate Topic: ") \o topic,
           Chars("Participants: AgentA (") \o persona_a \o Chars(") vs AgentB (")
               \o persona_b \o Chars(")"),
           Chars("Total Rounds: ") \o IntToStr(rc),
           Chars("Total Turns: ") \o IntToStr(Len(ts)),
           <<>>,
           Chars("Key Arguments:"),
           <<>> >>
         \o [i \in 1..Len(ts) |-> SummaryLine(ts[i])]
         \o <<<<>>,
              Chars("Analysis:"),
              Chars("- AgentA Argument Quality: ") \o Fmt2(analysis.agent_a.argument_quality),
              Chars("- AgentB Argument Quality: ") \o Fmt2(analysis.agent_b.argument_quality),
              Chars("- Debate Coherence: ") \o Fmt2(analysis.debate_flow.topic_adherence),
              Chars("- Proper Turn Alternation: ")
                  \o (IF analysis.debate_flow.alternating_turns
                      THEN Chars("True") ELSE Chars("False"))>>)

\* ------------------------------------------------------------------------
\* nodes/user_input_node.py
\* ------------------------------------------------------------------------
UpperChar(c) ==
    LET up == {u \in {"A", "B", "C", "D", "E", "F", "G", "H", "I", "J", "K", "L", "M", "N",
                      "O", "P", "Q", "R", "S", "T", "U", "V", "W", "X", "Y", "Z"} :
                  LowerChar(u) = c}
    IN  IF up = {} THEN c ELSE CHOOSE u \in up : TRUE

IsWordChar(c) ==
    \/ LowerChar(c) \in {"a", "b", "c", "d", "e", "f", "g", "h", "i", "j", "k", "l", "m", "n",
                         "o", "p", "q", "r", "s", "t", "u", "v", "w", "x", "y", "z"}
    \/ c \in {"0", "1", "2", "3", "4", "5", "6", "7", "8", "9", "_"}

InappropriateKeywords == {Chars(w) : w \in {"spam", "testtest", "xxx", "spamtest"}}

\* a validation that looks for a keyword before it looks at the length
ValidateTopicKeywordFirst(topic) ==
    IF topic = <<>> \/ Strip(topic) = <<>> THEN "Topic cannot be empty"
    ELSE IF AnyIn(Lower(topic), InappropriateKeywords)
         THEN "Topic contains inappropriate content"
    ELSE IF Len(topic) < 10 THEN "Topic must be at least 10 characters long"
    ELSE IF Len(topic) > 200 THEN "Topic must be less than 200 characters"
    ELSE ""

\* UserInputNode._validate_topic: the rejection reason, "" when valid
ValidateTopic(topic) ==
    IF topic = <<>> \/ Strip(topic) = <<>> THEN "Topic cannot be empty"
    ELSE IF Len(topic) < 10 THEN "Topic must be at least 10 characters long"
    ELSE IF Len(topic) > 200 THEN "Topic must be less than 200 characters"
    ELSE IF AnyIn(Lower(topic), InappropriateKeywords)
         THEN "Topic contains inappropriate content"
    ELSE ""

\* re.sub(r'\s+', ' ', s): every maximal run of whitespace becomes one space
CollapseSpaces(s) ==
    SelectSeq([i \in 1..Len(s) |->
                  IF ~IsSpace(s[i]) THEN s[i]
                  ELSE IF i = Len(s) \/ ~IsSpace(s[i + 1]) THEN " "
                  ELSE "dropped"],
              LAMBDA c : c # "dropped")

\* re.sub(r'[^\w\s\?\!\.,\-\']', '', s)
KeepBasic(s) ==
    SelectSeq(s, LAMBDA c : IsWordChar(c) \/ IsSpace(c) \/ c \in {"?", "!", ".", ",", "-", "'"})

\* UserInputNode._sanitize_topic
SanitizeTopic(topic) ==
    With(KeepBasic(CollapseSpaces(Strip(topic))), LAMBDA t :
        IF t # <<>> THEN <<UpperChar(t[1])>> \o Tail(t) ELSE t)

\* ------------------------------------------------------------------------
\* nodes/agent_node.py, nodes/memory_node.py, nodes/rounds_controller_node.py
\* ------------------------------------------------------------------------
\* a validation without the lower length limit
ValidateResponseNoMinimum(response) ==
    IF response = <<>> \/ Strip(response) = <<>> THEN "Empty response generated"
    ELSE IF Len(response) > MaxResponseLength THEN "Response too long"
    ELSE ""

\* a validation that looks at the length before it looks for an empty text
ValidateResponseLengthFirst(response) ==
    IF Len(response) < MinResponseLength THEN "Response too short"
    ELSE IF Len(response) > MaxResponseLength THEN "Response too long"
    ELSE IF response = <<>> \/ Strip(response) = <<>> THEN "Empty response generated"
    ELSE ""

\* AgentNode._validate_response: the rejection reason, "" when valid
ValidateResponse(response) ==
    IF response = <<>> \/ Strip(response) = <<>> THEN "Empty response generated"
    ELSE IF Len(response) < MinResponseLength THEN "Response too short"
    ELSE IF Len(response) > MaxResponseLength THEN "Response too long"
    ELSE ""

\* _calculate_similarity tabulated over the texts that can reach update_memory
ValidCandidates == {c \in Candidates : ValidateResponse(c) = ""}

SimilarityTable ==
    {<<p[1], p[2], CalculateSimilarity(p[1], p[2])>> : p \in ValidCandidates \X ValidCandidates}

\* MemoryNode._calculate_similarity as the callers see it: the cached value
\* of a pair is the value computed for it
Similarity(text1, text2) ==
    (CHOOSE e \in SimilarityTable : e[1] = text1 /\ e[2] = text2)[3]

\* similarity > threshold
ExceedsThreshold(similarity, threshold) == FracGT(similarity, threshold)

\* a repetition check that looks at the most recent turn only
CheckRepetitionLastOnly(ts, new_response, threshold) ==
    /\ ts # <<>>
    /\ ExceedsThreshold(Similarity(new_response, ts[Len(ts)].text), threshold)

\* MemoryNode._check_repetition
CheckRepetition(ts, new_response, threshold) ==
    \E i \in 1..Len(ts) : ExceedsThreshold(Similarity(new_response, ts[i].text), threshold)

\* a turn-order check that lets every agent through
ValidateTurnOrderAny(agent_name, ts, nxt) == TRUE

\* AgentNode._validate_turn_order
ValidateTurnOrder(agent_name, ts, nxt) ==
    IF Len(ts) = 0 THEN agent_name = "AgentA" ELSE nxt = agent_name

\* RoundsControllerNode.validate_turn_order
ControllerValidateTurnOrder(nxt, attempted_agent) == nxt = attempted_agent

\* a round limit that is off by one
CheckRoundLimitStrict(rc, total) == rc > total

\* RoundsControllerNode.check_round_limit
CheckRoundLimit(rc, total) == rc >= total

\* a controller that opens a new round after every turn
NextTurnNewRound(ts, cround) ==
    IF Len(ts) = 0 THEN <<"AgentA", 1>>
    ELSE IF ts[Len(ts)].agent = "AgentA" THEN <<"AgentB", cround + 1>>
    ELSE <<"AgentA", cround + 1>>

\* a controller that counts the rounds down after AgentB's turn
NextTurnCountingDown(ts, cround) ==
    IF Len(ts) = 0 THEN <<"AgentA", 1>>
    ELSE IF ts[Len(ts)].agent = "AgentA" THEN <<"AgentB", cround>>
    ELSE <<"AgentA", cround - 1>>

\* RoundsControllerNode.run, the "continue" branch: <<next_agent, next_round>>
NextTurn(ts, cround) ==
    IF Len(ts) = 0 THEN <<"AgentA", 1>>
    ELSE IF ts[Len(ts)].agent = "AgentA" THEN <<"AgentB", cround>>
    ELSE <<"AgentA", cround + 1>>

\* an update_memory that records the turn before it looks at the verdict
UpdateMemoryEager(ts, rc, turn, rep) ==
    IF rep THEN [ok |-> FALSE, turns |-> Append(ts, turn), rounds_completed |-> rc]
    ELSE [ok |-> TRUE, turns |-> Append(ts, turn), rounds_completed |-> rc + 1]

\* an update_memory that records the turn at the front of the list
UpdateMemoryPrepend(ts, rc, turn, rep) ==
    IF rep THEN [ok |-> FALSE, turns |-> ts, rounds_completed |-> rc]
    ELSE [ok |-> TRUE, turns |-> <<turn>> \o ts, rounds_completed |-> rc + 1]

\* MemoryNode.update_memory: what is recorded, given the verdict rep of
\* _check_repetition
UpdateMemory(ts, rc, turn, rep) ==
    IF rep THEN [ok |-> FALSE, turns |-> ts, rounds_completed |-> rc]
    ELSE [ok |-> TRUE, turns |-> Append(ts, turn), rounds_completed |-> rc + 1]

\* DebateSystem.run: rounds_completed after the agent's turn returned status
SystemRoundsCompleted(rc, result_status) ==
    IF result_status = "success" THEN rc + 1 ELSE rc

\* ------------------------------------------------------------------------
\* State
\* ------------------------------------------------------------------------
VARIABLES
    driver,               \* "graph": DebateRunner (run_debate.py); "system": DebateSystem
    total_rounds,         \* config.total_rounds
    similarity_threshold, \* config.similarity_threshold
    agent_a_persona,      \* state.agent_a_persona
    agent_b_persona,      \* state.agent_b_persona
    topic,                \* state.topic
    status,               \* state.status
    current_round,        \* state.current_round
    next_agent,           \* state.next_agent
    rounds_completed,     \* state.rounds_completed
    turns,                \* state.memory.turns
    summary,              \* state.memory.summary
    mem_round,            \* state.memory.current_round
    errors,               \* state.errors
    winner,               \* state.winner
    judge_summary,        \* state.judge_summary
    judge_reasoning,      \* state.judge_reasoning
    turn_rejected,        \* state._turn_rejected
    rejection_reason,     \* state._rejection_reason
    next_step,            \* the node to run next (_next_step); DebateSystem.run's position
    round_num,            \* DebateSystem.run's loop variable
    last_result           \* the result dict of the AgentNode.run call its caller is handling,
                          \* with the candidate text it was about

config == <<driver, total_rounds, similarity_threshold, agent_a_persona, agent_b_persona>>
memory == <<turns, summary, mem_round>>
judged == <<winner, judge_summary, judge_reasoning, errors>>
vars == <<config, topic, status, current_round, next_agent, rounds_completed, memory, judged,
          turn_rejected, rejection_reason, next_step, round_num,
          last_result>>

NoResult == [agent |-> None, status |-> "none", error |-> "", response |-> <<>>]

\* DebateRunner.__init__ / DebateSystem.__init__ with a DebateConfig whose
\* total_rounds is in rounds and whose similarity_threshold is in thresholds
Constructed(rounds, thresholds) ==
    /\ driver \in {"graph", "system"}
    /\ total_rounds \in rounds
    /\ similarity_threshold \in thresholds
    /\ \/ agent_a_persona = Scientist /\ agent_b_persona = Philosopher
       \/ driver = "graph" /\ agent_a_persona = Philosopher /\ agent_b_persona = Scientist
    /\ topic = <<>>
    /\ status = INITIALIZED
    /\ current_round = 0
    /\ next_agent = "AgentA"
    /\ rounds_completed = 0
    /\ turns = <<>>
    /\ summary = <<>>
    /\ mem_round = 0
    /\ errors = <<>>
    /\ winner = None
    /\ judge_summary = <<>>
    /\ judge_reasoning = <<>>
    /\ turn_rejected = FALSE
    /\ rejection_reason = ""
    /\ next_step = IF driver = "graph" THEN "UserInputNode" ELSE "Start"
    /\ round_num = 0
    /\ last_result = NoResult

Init == Constructed(1..MaxTotalRounds, Thresholds)

\* ------------------------------------------------------------------------
\* AgentNode.run
\* ------------------------------------------------------------------------
\* AgentNode._get_persona
GetPersona(agent_name) == IF agent_name = "AgentA" THEN agent_a_persona ELSE agent_b_persona

\* an AgentNode.run whose gate also rejects a text that shares no word with
\* the topic
AgentRunOnTopicOnly(agent_name, response, nxt, cround) ==
    LET same == [status |-> "error", error |-> "Out of turn",
                 turns |-> turns, summary |-> summary, mem_round |-> mem_round,
                 rounds_completed |-> rounds_completed,
                 turn_rejected |-> turn_rejected, rejection_reason |-> rejection_reason]
    IN  IF ~ValidateTurnOrder(agent_name, turns, nxt) THEN same
        ELSE With(IF topic # <<>> /\ WordSet(Lower(response)) \cap WordSet(Lower(topic)) = {}
                  THEN "Off topic" ELSE ValidateResponse(response), LAMBDA reason :
            IF reason # ""
            THEN [same EXCEPT !.status = "rejected", !.error = reason,
                              !.turn_rejected = TRUE, !.rejection_reason = reason]
            ELSE With(UpdateMemory(turns, rounds_completed,
                                   TurnRecord(cround, agent_name, GetPersona(agent_name),
                                              response),
                                   CheckRepetition(turns, response, similarity_threshold)),
                      LAMBDA upd :
                [same EXCEPT
                    !.status = IF upd.ok THEN "success" ELSE "error",
                    !.error  = IF upd.ok THEN ""
                               ELSE "Failed to update memory - possible repetition",
                    !.turns  = upd.turns,
                    !.mem_round = IF upd.ok
                                  THEN AddTurnRefresh(upd.turns, cround).current_round
                                  ELSE mem_round,
                    !.summary = IF upd.ok
                                THEN AddTurnRefresh(upd.turns, cround).summary
                                ELSE summary,
                    !.rounds_completed = upd.rounds_completed]))

\* The outcome of AgentNode.run for agent_name when the producer returns
\* response, state.next_agent is nxt and state.current_round is cround
AgentRun(agent_name, response, nxt, cround) ==
    LET same == [status |-> "error", error |-> "Out of turn",
                 turns |-> turns, summary |-> summary, mem_round |-> mem_round,
                 rounds_completed |-> rounds_completed,
                 turn_rejected |-> turn_rejected, rejection_reason |-> rejection_reason]
    IN  IF ~ValidateTurnOrder(agent_name, turns, nxt) THEN same
        ELSE With(ValidateResponse(response), LAMBDA reason :
            IF reason # ""
            THEN [same EXCEPT !.status = "rejected", !.error = reason,
                              !.turn_rejected = TRUE, !.rejection_reason = reason]
            ELSE With(UpdateMemory(turns, rounds_completed,
                                   TurnRecord(cround, agent_name, GetPersona(agent_name),
                                              response),
                                   CheckRepetition(turns, response, similarity_threshold)),
                      LAMBDA upd :
                [same EXCEPT
                    !.status = IF upd.ok THEN "success" ELSE "error",
                    !.error  = IF upd.ok THEN ""
                               ELSE "Failed to update memory - possible repetition",
                    !.turns  = upd.turns,
                    !.mem_round = IF upd.ok
                                  THEN AddTurnRefresh(upd.turns, cround).current_round
                                  ELSE mem_round,
                    !.summary = IF upd.ok
                                THEN AddTurnRefresh(upd.turns, cround).summary
                                ELSE summary,
                    !.rounds_completed = upd.rounds_completed]))

\* the state changes of AgentNode.run other than the driver's own
ApplyAgentRun(agent_name, response, res) ==
    /\ turns' = res.turns
    /\ summary' = res.summary
    /\ mem_round' = res.mem_round
    /\ turn_rejected' = res.turn_rejected
    /\ rejection_reason' = res.rejection_reason
    /\ last_result' = [agent |-> agent_name, status |-> res.status, error |-> res.error,
                       response |-> response]

\* ------------------------------------------------------------------------
\* DebateRunner (run_debate.py): the controller graph
\* ------------------------------------------------------------------------
\* _user_input_wrapper / UserInputNode.run
UserInputNodeRun ==
    /\ driver = "graph"
    /\ next_step = "UserInputNode"
    /\ \E input \in TopicInputs :
            IF ValidateTopic(input) # ""
            THEN UNCHANGED <<topic, status, next_step>>
            ELSE /\ topic' = SanitizeTopic(input)
                 /\ status' = INITIALIZED
                 /\ next_step' = "RoundsControllerNode"
    /\ UNCHANGED <<config, current_round, next_agent, rounds_completed, memory, judged,
                   turn_rejected, rejection_reason, round_num, last_result>>

\* _rounds_controller_wrapper / RoundsControllerNode.run
RoundsControllerNodeRun ==
    /\ driver = "graph"
    /\ next_step = "RoundsControllerNode"
    /\ IF CheckRoundLimit(rounds_completed, total_rounds)
       THEN /\ status' = COMPLETED
            /\ next_step' = "JudgeNode"
            /\ UNCHANGED <<current_round, next_agent>>
       ELSE LET nt == NextTurn(turns, current_round)
            IN  /\ nt[2] <= MaxRoundNo
                /\ current_round' = nt[2]
                /\ next_agent' = nt[1]
                /\ next_step' = nt[1] \o "Node"
                /\ UNCHANGED status
    /\ last_result' = NoResult
    /\ UNCHANGED <<config, topic, rounds_completed, memory, judged, turn_rejected,
                   rejection_reason, round_num>>

AgentNodes == {"AgentANode", "AgentBNode"}

\* _agent_a_wrapper / _agent_b_wrapper: the agent node the controller named
\* runs on whatever text the response producer returns
AgentNodeRun ==
    /\ driver = "graph"
    /\ next_step \in AgentNodes
    /\ \E a \in Agents, response \in Candidates :
          /\ next_step = a \o "Node"
          /\ \E res \in {AgentRun(a, response, next_agent, current_round)} :
                 /\ ApplyAgentRun(a, response, res)
                 /\ rounds_completed' = res.rounds_completed
    /\ next_step' = "RoundsControllerNode"
    /\ UNCHANGED <<config, topic, status, current_round, next_agent, judged, round_num>>

\* AgentNode.run called for the agent the controller did not name (the graph
\* has an edge from the controller to both agent nodes)
OutOfTurnAttempt ==
    /\ driver = "graph"
    /\ next_step \in AgentNodes
    /\ \E a \in Agents, response \in Candidates :
          /\ next_step # a \o "Node"
          /\ \E res \in {AgentRun(a, response, next_agent, current_round)} :
                 /\ ApplyAgentRun(a, response, res)
                 /\ rounds_completed' = res.rounds_completed
    /\ UNCHANGED <<config, topic, status, current_round, next_agent, judged, round_num,
                   next_step>>

\* a Judge that hands the state back initialized for another debate
JudgeNodeRunResetting ==
    /\ next_step = "JudgeNode"
    /\ \E analysis \in {AnalyzeDebate(turns, topic, agent_a_persona, agent_b_persona,
                                        rounds_completed)} :
       \E w \in {DetermineWinner(agent_a_persona, agent_b_persona, analysis)} :
           /\ errors' = IF rounds_completed < total_rounds
                        THEN Append(errors,
                                    Chars("Debate incomplete: only ")
                                    \o IntToStr(rounds_completed) \o Chars("/")
                                    \o IntToStr(total_rounds) \o Chars(" rounds"))
                        ELSE errors
           /\ winner' = w[1]
           /\ judge_reasoning' = w[2]
           /\ judge_summary' = GenerateSummary(turns, topic, agent_a_persona,
                                               agent_b_persona, rounds_completed, analysis)
    /\ status' = INITIALIZED
    /\ next_step' = "END"
    /\ last_result' = NoResult
    /\ UNCHANGED <<config, topic, current_round, next_agent, rounds_completed, memory,
                   turn_rejected, rejection_reason, round_num>>

\* _judge_wrapper / JudgeNode.run (also step 3 of DebateSystem.run)
JudgeNodeRun ==
    /\ next_step = "JudgeNode"
    /\ \E analysis \in {AnalyzeDebate(turns, topic, agent_a_persona, agent_b_persona,
                                        rounds_completed)} :
       \E w \in {DetermineWinner(agent_a_persona, agent_b_persona, analysis)} :
           /\ errors' = IF rounds_completed < total_rounds
                        THEN Append(errors,
                                    Chars("Debate incomplete: only ")
                                    \o IntToStr(rounds_completed) \o Chars("/")
                                    \o IntToStr(total_rounds) \o Chars(" rounds"))
                        ELSE errors
           /\ winner' = w[1]
           /\ judge_reasoning' = w[2]
           /\ judge_summary' = GenerateSummary(turns, topic, agent_a_persona,
                                               agent_b_persona, rounds_completed, analysis)
    /\ status' = COMPLETED
    /\ next_step' = "END"
    /\ last_result' = NoResult
    /\ UNCHANGED <<config, topic, current_round, next_agent, rounds_completed, memory,
                   turn_rejected, rejection_reason, round_num>>

\* ------------------------------------------------------------------------
\* DebateSystem.run (debate_system.py)
\* ------------------------------------------------------------------------
\* step 1: the topic argument is stored as given
SystemStart ==
    /\ driver = "system"
    /\ next_step = "Start"
    /\ topic' \in Topics
    /\ round_num' = 1
    /\ next_step' = IF 1 <= total_rounds THEN "DebateLoop" ELSE "JudgeNode"
    /\ UNCHANGED <<config, status, current_round, next_agent, rounds_completed, memory,
                   judged, turn_rejected, rejection_reason, last_result>>

\* the agent of loop iteration n
LoopAgent(n) == IF n % 2 = 1 THEN "AgentA" ELSE "AgentB"

\* step 2: one iteration of "for round_num in range(1, total_rounds + 1)"
SystemLoop ==
    /\ driver = "system"
    /\ next_step = "DebateLoop"
    /\ round_num <= total_rounds
    /\ LET agent == LoopAgent(round_num)
       IN  /\ next_agent' = agent
           /\ current_round' = round_num
           /\ \E response \in Candidates :
                 \E res \in {AgentRun(agent, response, agent, round_num)} :
                     /\ ApplyAgentRun(agent, response, res)
                     /\ rounds_completed' =
                            SystemRoundsCompleted(res.rounds_completed, res.status)
    /\ round_num' = round_num + 1
    /\ next_step' = IF round_num + 1 <= total_rounds THEN "DebateLoop" ELSE "JudgeNode"
    /\ UNCHANGED <<config, topic, status, judged>>

Next ==
    \/ UserInputNodeRun
    \/ RoundsControllerNodeRun
    \/ AgentNodeRun
    \/ OutOfTurnAttempt
    \/ JudgeNodeRun
    \/ SystemStart
    \/ SystemLoop

Spec == Init /\ [][Next]_vars

\* The hand-over of control by the user-input step and by the Judge step, as
\* changes of next_step alone: UserInputNodeRun is the only action that takes
\* next_step from "UserInputNode" to "RoundsControllerNode" and JudgeNodeRun
\* the only one that takes it from "JudgeNode" to "END", and each is enabled
\* exactly when next_step names it.
UserInputHandOver ==
    driver = "graph" /\ next_step = "UserInputNode" /\ next_step' = "RoundsControllerNode"

JudgeHandOver == next_step = "JudgeNode" /\ next_step' = "END"

\* One thread of control runs the node that next_step names (graph.invoke in
\* DebateRunner.run, the for loop in DebateSystem.run): a node whose turn it
\* is eventually runs.  Nothing obliges anyone to make an out-of-turn attempt,
\* and nothing is assumed about which text the response producer returns.
FairSpec ==
    /\ Spec
    /\ WF_next_step(UserInputHandOver)
    /\ WF_vars(RoundsControllerNodeRun)
    /\ WF_vars(AgentNodeRun)
    /\ WF_next_step(JudgeHandOver)
    /\ WF_vars(SystemStart)
    /\ WF_vars(SystemLoop)

\* ------------------------------------------------------------------------
\* Properties
\* ------------------------------------------------------------------------
RepetitionError == "Failed to update memory - possible repetition"
OutOfTurnError == "Out of turn"

\* a step in which AgentNode.run was called (last_result' is its result)
AttemptStep == last_result'.agent \in Agents /\ vars' # vars

\* a step of the controller that directly follows an accepted turn
ControllerAfterAccepted(agent) ==
    /\ driver = "graph"
    /\ next_step = "RoundsControllerNode"
    /\ next_step' # next_step
    /\ last_result.status = "success"
    /\ last_result.agent = agent

\* C1 as stated: in the controller loop the first recorded turn is AgentA's;
\* the controller step after an accepted AgentA turn sets next_agent to AgentB
\* and keeps current_round; the controller step after an accepted AgentB turn
\* sets next_agent to AgentA and adds 1 to current_round.
C1_TurnOrderAfterEveryTurn ==
    [][driver = "graph" =>
        /\ (turns' # <<>> => turns'[1].agent = "AgentA")
        /\ (ControllerAfterAccepted("AgentA") =>
                next_agent' = "AgentB" /\ current_round' = current_round)
        /\ (ControllerAfterAccepted("AgentB") =>
                next_agent' = "AgentA" /\ current_round' = current_round + 1)]_vars

\* C1 amended: the same, for every accepted turn that leaves the round budget
\* unexhausted (rounds_completed < total_rounds); after the turn that exhausts
\* it the controller hands off to the Judge and leaves next_agent and
\* current_round as they are.
C1_TurnOrder ==
    [][driver = "graph" =>
        /\ (turns' # <<>> => turns'[1].agent = "AgentA")
        /\ (ControllerAfterAccepted("AgentA") /\ rounds_completed < total_rounds =>
                next_agent' = "AgentB" /\ current_round' = current_round)
        /\ (ControllerAfterAccepted("AgentB") /\ rounds_completed < total_rounds =>
                next_agent' = "AgentA" /\ current_round' = current_round + 1)
        /\ (ControllerAfterAccepted("AgentA") /\ rounds_completed >= total_rounds =>
                next_step' = "JudgeNode" /\ UNCHANGED <<next_agent, current_round>>)
        /\ (ControllerAfterAccepted("AgentB") /\ rounds_completed >= total_rounds =>
                next_step' = "JudgeNode" /\ UNCHANGED <<next_agent, current_round>>)]_vars

\* the controller has opened round 2 for AgentA after an accepted AgentB turn
C1_Witness ==
    /\ driver = "graph"
    /\ Len(turns) = 2
    /\ turns[1].agent = "AgentA"
    /\ turns[2].agent = "AgentB"
    /\ next_step = "AgentANode"
    /\ next_agent = "AgentA"
    /\ current_round = 2

\* C2: rounds_completed equals the number of turns recorded in memory, at
\* every turn boundary and under either driver.
C2_RoundsCompletedCountsTurns == rounds_completed = Len(turns)

\* C3: once total_rounds turns are recorded the next step makes (or keeps) the
\* status Completed, and from a state that has total_rounds turns or is
\* Completed no step adds a turn.
C3_RoundLimit ==
    [][(Len(turns) = total_rounds \/ status = COMPLETED) =>
            (status' = COMPLETED /\ turns' = turns)]_vars

\* the controller has closed an exchange that used its whole round budget
C3_Witness ==
    /\ driver = "graph"
    /\ status = COMPLETED
    /\ Len(turns) = total_rounds
    /\ total_rounds = MaxTotalRounds
    /\ next_step = "JudgeNode"

\* C4: no two consecutive recorded turns have the same agent, in every
\* reachable state of either driver.
C4_TurnsAlternate == CheckTurnAlternation(turns)

C6_ContextIsolation ==
    \A p \in Agents : \A i \in 1..Len(turns) :
        turns[i].agent = p => ~Contains(GetAgentContext(turns, summary, p), turns[i].text)

\* C7: with similarity_threshold 0.8 or 0.95, an attempt whose candidate
\* equals the text of a prior turn (by either participant) records nothing and,
\* unless it is out of turn, fails as a repetition.
C7_IdenticalTextRejected ==
    [][(/\ AttemptStep
        /\ similarity_threshold \in {<<80, 100>>, <<95, 100>>}
        /\ \E i \in 1..Len(turns) : turns[i].text = last_result'.response) =>
            /\ turns' = turns
            /\ last_result'.status = "error"
            /\ last_result'.error \in {RepetitionError, OutOfTurnError}
            /\ (ValidateTurnOrder(last_result'.agent, turns, next_agent') =>
                    last_result'.error = RepetitionError)]_vars

\* a copy of the first recorded turn, not of the latest one, was refused as a repetition
C7_Witness ==
    /\ last_result.error = RepetitionError
    /\ Len(turns) >= 2
    /\ turns[1].text = last_result.response
    /\ turns[Len(turns)].text # last_result.response

\* C8: an attempt rejected as empty, too short, too long or a repetition
\* leaves memory.turns, memory.summary, memory.current_round and
\* rounds_completed unchanged.
C8_RejectedNotRecorded ==
    [][(AttemptStep /\ (last_result'.status = "rejected"
                        \/ last_result'.error = RepetitionError)) =>
            UNCHANGED <<turns, summary, mem_round, rounds_completed>>]_vars

\* a candidate was rejected by the gate while memory already held a turn
C8_Witness ==
    /\ turns # <<>>
    /\ \/ last_result.status = "rejected" /\ last_result.error = "Response too short"
       \/ last_result.error = RepetitionError

\* the turn slots the driver has used up, as its termination test counts them
SlotsUsed == IF driver = "graph" THEN rounds_completed ELSE round_num - 1

\* C9: every in-turn attempt, accepted or not, uses up one of the
\* total_rounds turn slots.
C9_AttemptConsumesSlot ==
    [][(AttemptStep /\ last_result'.error # OutOfTurnError) =>
            SlotsUsed' = SlotsUsed + 1]_vars

\* the controller cannot be run because current_round is at the model's bound
RoundBoundReached ==
    /\ driver = "graph"
    /\ next_step = "RoundsControllerNode"
    /\ ~CheckRoundLimit(rounds_completed, total_rounds)
    /\ NextTurn(turns, current_round)[2] > MaxRoundNo

\* C10: under fair scheduling every exchange eventually is Completed with a
\* winner set by the Judge (within the modelled round numbers).
C10_EventuallyJudged ==
    <>((status = COMPLETED /\ winner \in Agents) \/ RoundBoundReached)

\* an attempt made in turn: the turn-order check of AgentNode.run let it through
InTurnAttempt == AttemptStep /\ last_result'.error # OutOfTurnError

\* a repetition check that also rejects a similarity equal to the threshold
TooSimilarInclusive(response, ts, threshold) ==
    \E i \in 1..Len(ts) : FracGE(CalculateSimilarity(response, ts[i].text), threshold)

\* the candidate is too similar to a turn of ts (similarity computed afresh)
TooSimilar(response, ts, threshold) ==
    \E i \in 1..Len(ts) : FracGT(CalculateSimilarity(response, ts[i].text), threshold)

\* C11: an in-turn candidate is rejected with the reason of the first check it
\* fails, in the order empty-after-trimming, too short, too long, repetition
\* against the prior turns; a candidate that fails none is accepted.
C11_FirstFailureDecides ==
    [][InTurnAttempt =>
        \E r \in {last_result'} :
            IF Strip(r.response) = <<>>
            THEN r.status = "rejected" /\ r.error = "Empty response generated"
            ELSE IF Len(r.response) < MinResponseLength
            THEN r.status = "rejected" /\ r.error = "Response too short"
            ELSE IF Len(r.response) > MaxResponseLength
            THEN r.status = "rejected" /\ r.error = "Response too long"
            ELSE IF \E i \in 1..Len(turns) :
                        ExceedsThreshold(Similarity(r.response, turns[i].text),
                                         similarity_threshold)
            THEN r.status = "error" /\ r.error = RepetitionError
            ELSE r.status = "success"]_vars

\* a too-short candidate that is also too similar to a recorded turn was
\* rejected as too short
C11_Witness ==
    /\ last_result.status = "rejected"
    /\ last_result.error = "Response too short"
    /\ turns # <<>>
    /\ TooSimilar(last_result.response, turns, similarity_threshold)

\* the Judge's fields are populated
JudgeFieldsSet == winner \in Agents /\ judge_summary # <<>> /\ judge_reasoning # <<>>

\* C12: status becomes Completed in a Judge step, in the same step that
\* populates winner, judge_summary and judge_reasoning; once that has happened
\* no step changes the exchange state again.
C12_FinalizedOnceByJudge ==
    [][/\ (status # COMPLETED /\ status' = COMPLETED =>
                next_step = "JudgeNode" /\ JudgeFieldsSet')
       /\ (JudgeFieldsSet =>
                UNCHANGED <<status, judged, memory, current_round, next_agent,
                            rounds_completed>>)]_vars

\* the overall scores <<AgentA's, AgentB's>> the Judge computes in this state
OverallScores ==
    With(AnalyzeDebate(turns, topic, agent_a_persona, agent_b_persona, rounds_completed),
         LAMBDA analysis : <<AgentScore(analysis.agent_a), AgentScore(analysis.agent_b)>>)

\* the fixed tie-break of _determine_winner
TieBreakWinner == IF agent_a_persona = Scientist THEN "AgentA" ELSE "AgentB"

\* C13: the Judge's winner is the participant with the strictly higher
\* overall score; on an exact tie it is AgentA when AgentA holds the scientist
\* persona and AgentB otherwise; it is always AgentA or AgentB.
C13_WinnerSelection ==
    [][JudgeHandOver =>
        \E score \in {OverallScores} :
            /\ winner' \in Agents
            /\ (FracGT(score[1], score[2]) => winner' = "AgentA")
            /\ (FracGT(score[2], score[1]) => winner' = "AgentB")
            /\ (FracEQ(score[1], score[2]) => winner' = TieBreakWinner)]_vars

\* the Judge has broken a tie between two participants who both spoke, in
\* favour of AgentB because AgentA does not hold the scientist persona
C13_Witness ==
    /\ next_step = "END"
    /\ agent_a_persona = Philosopher
    /\ Len(turns) >= 2
    /\ FracEQ(OverallScores[1], OverallScores[2])
    /\ winner = "AgentB"

\* _analyze_debate on an exchange with no turns, in this state's configuration
ZeroTurnAnalysis ==
    AnalyzeDebate(<<>>, topic, agent_a_persona, agent_b_persona, rounds_completed)

\* both participants of the zero-turn analysis have quality 0, relevance 0,
\* coherence 1 and the overall score given
ZeroTurnScores(overall) ==
    \E analysis \in {ZeroTurnAnalysis} :
        \A m \in {analysis.agent_a, analysis.agent_b} :
            /\ m.turns_count = 0
            /\ FracEQ(m.argument_quality, <<0, 1>>)
            /\ FracEQ(m.relevance_score, <<0, 1>>)
            /\ FracEQ(m.coherence_score, <<1, 1>>)
            /\ FracEQ(AgentScore(m), overall)

\* the Judge runs on an exchange with no turns
ZeroTurnJudgeStep == JudgeHandOver /\ turns = <<>>

\* C14 as stated: judging zero turns gives both participants the overall
\* score 0.0 and coherence 1.0, and the tie-break winner.
C14_ZeroTurnOverallZero ==
    [][/\ ZeroTurnScores(<<0, 1>>)
       /\ (ZeroTurnJudgeStep => winner' = TieBreakWinner /\ JudgeFieldsSet')]_vars

\* C14 amended: judging zero turns gives both participants quality 0.0,
\* relevance 0.0, coherence 1.0 and therefore the overall score 0.3, and the
\* tie-break winner; the Judge's fields are populated.
C14_ZeroTurnJudgment ==
    [][/\ ZeroTurnScores(<<3, 10>>)
       /\ DetermineWinner(agent_a_persona, agent_b_persona, ZeroTurnAnalysis)[1]
              = TieBreakWinner
       /\ (ZeroTurnJudgeStep => winner' = TieBreakWinner /\ JudgeFieldsSet')]_vars

\* the Judge has judged an exchange in which every attempt was rejected
C14_Witness ==
    /\ next_step = "END"
    /\ turns = <<>>
    /\ total_rounds = MaxTotalRounds
    /\ winner = TieBreakWinner
    /\ JudgeFieldsSet

\* the Judge step appended an entry to state.errors
IncompleteFlagged == errors' # errors

\* C15: the Judge appends an incomplete-exchange entry exactly when
\* rounds_completed < total_rounds at judgment time, which is exactly when the
\* exchange ended with fewer accepted turns than total_rounds; a winner and a
\* summary are produced either way.
C15_IncompleteFlag ==
    [][JudgeHandOver =>
           /\ (IncompleteFlagged <=> rounds_completed < total_rounds)
           /\ (IncompleteFlagged <=> Len(turns) < total_rounds)
           /\ JudgeFieldsSet']_vars

\* ------------------------------------------------------------------------
\* The Judge as a function of the memory and the topic
\* ------------------------------------------------------------------------
MaxJudgeTurns == 3

\* texts that score above 1.0 before the cap of _assess_argument_quality
RichScience == Chars("evidence data study research empirical analysis because example")
RichEthics == Chars("ethical moral justice principle virtue duty rights logic however")

JudgeTexts == {V1, RichScience, RichEthics}

JudgeTopics == Topics \cup {<<>>, Chars("data")}

\* every memory of at most MaxJudgeTurns turns over JudgeTexts, whoever spoke
JudgeMemories(persona_a, persona_b) ==
    UNION {{[k \in 1..n |->
                TurnRecord((k + 1) \div 2, f[k][1],
                           IF f[k][1] = "AgentA" THEN persona_a ELSE persona_b, f[k][2])] :
            f \in [1..n -> Agents \X JudgeTexts]} : n \in 0..MaxJudgeTurns}

\* JudgeNode.run is handed a state holding any such memory and topic
JudgeInit ==
    /\ driver = "graph"
    /\ total_rounds = MaxTotalRounds
    /\ similarity_threshold \in {<<95, 100>>}
    /\ \/ agent_a_persona = Scientist /\ agent_b_persona = Philosopher
       \/ agent_a_persona = Philosopher /\ agent_b_persona = Scientist
    /\ topic \in JudgeTopics
    /\ status = IN_PROGRESS
    /\ turns \in JudgeMemories(agent_a_persona, agent_b_persona)
    /\ rounds_completed = Len(turns)
    /\ mem_round = IF turns = <<>> THEN 0 ELSE turns[Len(turns)].round
    /\ current_round = mem_round
    /\ next_agent = "AgentA"
    /\ summary = IF turns = <<>> THEN <<>> ELSE UpdateSummary(turns, mem_round)
    /\ errors = <<>>
    /\ winner = None
    /\ judge_summary = <<>>
    /\ judge_reasoning = <<>>
    /\ turn_rejected = FALSE
    /\ rejection_reason = ""
    /\ next_step = "JudgeNode"
    /\ round_num = 0
    /\ last_result = NoResult

JudgeSpec == JudgeInit /\ [][JudgeNodeRun]_vars

\* 0 <= x <= 1 for a fraction x with a positive denominator
InUnitInterval(x) == x[2] > 0 /\ 0 <= x[1] /\ x[1] <= x[2]

\* the analysis of the current memory, as JudgeNode.run computes it
CurrentAnalysis ==
    AnalyzeDebate(turns, topic, agent_a_persona, agent_b_persona, rounds_completed)

\* C16: for every memory and every topic, each participant's quality,
\* coherence and relevance scores lie in [0,1], and so does the overall score
\* 0.4*quality + 0.3*coherence + 0.3*relevance (as exact fractions).
C16_ScoresInUnitInterval ==
    \E analysis \in {CurrentAnalysis} :
        \A m \in {analysis.agent_a, analysis.agent_b} :
            /\ InUnitInterval(m.argument_quality)
            /\ InUnitInterval(m.coherence_score)
            /\ InUnitInterval(m.relevance_score)
            /\ InUnitInterval(AgentScore(m))

\* the Judge has judged a memory in which the cap on a turn's quality acted
\* and the other participant has no turn
C16_Witness ==
    /\ next_step = "END"
    /\ Len(turns) = MaxJudgeTurns
    /\ \A k \in 1..Len(turns) : turns[k].agent = "AgentA" /\ turns[k].text = RichScience
    /\ agent_a_persona = Scientist
    /\ FracEQ(CurrentAnalysis.agent_a.argument_quality, <<1, 1>>)
    /\ FracEQ(CurrentAnalysis.agent_b.argument_quality, <<0, 1>>)

\* C17: in every reachable memory the k-th recorded turn carries the round
\* number ceil(k/2), so that a round is one AgentA turn followed by one AgentB
\* turn and no round number is skipped.
C17_RoundIsTurnPair ==
    \A k \in 1..Len(turns) : turns[k].round = (k + 1) \div 2

\* ------------------------------------------------------------------------
\* Construction with any DebateConfig (config.py)
\* ------------------------------------------------------------------------
\* values DebateConfig accepts for total_rounds: any int
ConfigRounds == 0..1

\* values DebateConfig accepts for similarity_threshold: any float
ConfigThresholds == {<<0, 100>>, <<95, 100>>, <<150, 100>>}

ConfigInit == Constructed(ConfigRounds, ConfigThresholds)

ConfigSpec == ConfigInit /\ [][Next]_vars

\* total_rounds >= 1 and similarity_threshold in (0,1]
ValidConfig ==
    /\ total_rounds >= 1
    /\ FracGT(similarity_threshold, <<0, 1>>)
    /\ FracGE(<<1, 1>>, similarity_threshold)

\* C18: an exchange constructed with total_rounds < 1 or with a
\* similarity_threshold outside (0,1] never runs: no step of the exchange is
\* taken in such a configuration.
C18_InvalidConfigNeverRuns ==
    [][ValidConfig]_vars

\* ts is a prefix of us
IsPrefix(ts, us) == Len(ts) <= Len(us) /\ SubSeq(us, 1, Len(ts)) = ts

\* C19: the turn list is an append-only log: every step, the Judge's
\* included, leaves it as it is or adds one turn at its end, so that every
\* recorded turn stays, unmodified, at its position.
C19_AppendOnly ==
    [][/\ IsPrefix(turns, turns')
       /\ Len(turns') <= Len(turns) + 1
       /\ (JudgeHandOver => turns' = turns)]_vars

\* the Judge has run on a full memory whose turns are the ones appended
C19_Witness ==
    /\ next_step = "END"
    /\ Len(turns) = MaxTotalRounds
    /\ Len(turns) >= 2
    /\ turns[1].agent = "AgentA" /\ turns[1].round = 1

\* C20: once a turn has been appended, memory.current_round is the round of
\* the last turn of the list and the summary is the summary function of the
\* current turn list, in every reachable state.
C20_MemoryConsistent ==
    turns # <<>> =>
        /\ mem_round = turns[Len(turns)].round
        /\ summary = UpdateSummary(turns, mem_round)

\* a memory with several turns whose last turn opened a later round
C20_Witness ==
    /\ Len(turns) >= 2
    /\ turns[Len(turns)].round > turns[1].round
    /\ mem_round = turns[Len(turns)].round
    /\ summary = UpdateSummary(turns, mem_round)
    /\ last_result.status = "success"

\* ------------------------------------------------------------------------
\* DebateMemory as an object of its own (state.py)
\* ------------------------------------------------------------------------
MaxMemoryTurns == 5

\* turn texts around the 100-character cut of _update_summary
MemoryTexts == {V1, Rep("w", SummaryChars), Rep("z", SummaryChars + 1)}

\* a fresh DebateMemory inside a fresh state
MemoryInit ==
    /\ driver = "graph"
    /\ total_rounds = MaxTotalRounds
    /\ similarity_threshold \in {<<95, 100>>}
    /\ agent_a_persona = Scientist /\ agent_b_persona = Philosopher
    /\ topic = <<>>
    /\ status = INITIALIZED
    /\ current_round = 0
    /\ next_agent = "AgentA"
    /\ rounds_completed = 0
    /\ turns = <<>>
    /\ summary = <<>>
    /\ mem_round = 0
    /\ errors = <<>>
    /\ winner = None
    /\ judge_summary = <<>>
    /\ judge_reasoning = <<>>
    /\ turn_rejected = FALSE
    /\ rejection_reason = ""
    /\ next_step = "add_turn"
    /\ round_num = 0
    /\ last_result = NoResult

\* DebateMemory.add_turn(turn) for any turn; AgentA's turns open a round
MemoryAddTurn ==
    /\ next_step = "add_turn"
    /\ Len(turns) < MaxMemoryTurns
    /\ \E agent \in Agents, text \in MemoryTexts :
          \E round \in {IF agent = "AgentA" \/ mem_round = 0 THEN mem_round + 1
                         ELSE mem_round} :
             \E ts \in {Append(turns, TurnRecord(round, agent, GetPersona(agent), text))} :
                \E mem \in {AddTurnRefresh(ts, round)} :
                    /\ turns' = ts
                    /\ mem_round' = mem.current_round
                    /\ summary' = mem.summary
    /\ UNCHANGED <<config, topic, status, current_round, next_agent, rounds_completed,
                   judged, turn_rejected, rejection_reason, next_step, round_num,
                   last_result>>

MemorySpec == MemoryInit /\ [][MemoryAddTurn]_vars

\* the text _update_summary assembles from the round and the two point lists
SummaryText(round, agent_a_points, agent_b_points) ==
    Join(Chars(" "),
         <<Chars("Debate is at round ") \o IntToStr(round) \o Chars(".")>>
         \o (IF agent_a_points # <<>>
             THEN <<Chars("AgentA arguments: ") \o Join(Chars(" | "), agent_a_points)>>
             ELSE <<>>)
         \o (IF agent_b_points # <<>>
             THEN <<Chars("AgentB arguments: ") \o Join(Chars(" | "), agent_b_points)>>
             ELSE <<>>))

\* C21: after any append the summary states the current round and holds, for
\* each participant, that participant's up to 3 most recent turns, each cut
\* to 100 characters with "..." exactly when it is longer.
C21_SummaryPerParticipant ==
    turns # <<>> =>
        summary = SummaryText(mem_round,
                              PointsOf(LastN(SelectAgent(turns, "AgentA"), SummaryTurns)),
                              PointsOf(LastN(SelectAgent(turns, "AgentB"), SummaryTurns)))

\* The status AgentNode.run returns, from the arguments its checks read:
\* _validate_turn_order, _validate_response, then _check_repetition
GateVerdict(agent_name, response, ts, nxt, threshold) ==
    IF ~ValidateTurnOrder(agent_name, ts, nxt) THEN "error"
    ELSE IF ValidateResponse(response) # "" THEN "rejected"
    ELSE IF CheckRepetition(ts, response, threshold) THEN "error"
    ELSE "success"

\* C22: whether a candidate is accepted is decided by the participant, the
\* candidate, the recorded turns, next_agent and similarity_threshold alone;
\* the topic (and with it any topic-coherence score) has no part in it.
C22_GateIgnoresTopic ==
    [][AttemptStep =>
        \E verdict \in {GateVerdict(last_result'.agent, last_result'.response, turns,
                                    next_agent', similarity_threshold)} :
            /\ last_result'.status = verdict
            /\ (turns' # turns <=> verdict = "success")]_vars

\* a candidate that shares no word with the topic was accepted
C22_Witness ==
    /\ last_result.status = "success"
    /\ topic # <<>>
    /\ WordSet(Lower(last_result.response)) \cap WordSet(Lower(topic)) = {}
    /\ turns # <<>>
    /\ turns[Len(turns)].text = last_result.response

\* <<min_response_length, max_response_length>> pairs passed to DebateConfig;
\* DebateConfig declares neither field and the exchange is the same for all
ConfiguredLengths == {<<5, MaxResponseLength>>, <<MinResponseLength, MaxResponseLength>>}

\* C23: a non-empty candidate is rejected as too short exactly when its length
\* is below the configured min_response_length and as too long exactly when
\* its length is above the configured max_response_length, whatever the
\* configured pair is.
C23_ConfiguredLengthLimits ==
    [][InTurnAttempt /\ Strip(last_result'.response) # <<>> =>
        \A limits \in ConfiguredLengths :
            \E r \in {last_result'} :
                /\ (r.error = "Response too short" <=> Len(r.response) < limits[1])
                /\ (r.error = "Response too long" <=> Len(r.response) > limits[2])]_vars

\* ------------------------------------------------------------------------
\* MemoryNode.update_memory on any text (memory_node.py)
\* ------------------------------------------------------------------------
MaxSimilarityTurns == 2

\* a text of 200 characters, all of them dropped from difflib's index
AllPopular == Rep("x", 200)

\* V1 with other punctuation: no word in common with V1
Repunctuated == Chars("data, shows, real, risk")

SimilarityTexts == {EmptyText, BlankText, V1, ShortText, V3, Repunctuated, AllPopular}

SimilarityThresholds == Thresholds \cup {<<1, 1>>}

SimilarityInit ==
    /\ driver = "graph"
    /\ total_rounds = MaxTotalRounds
    /\ similarity_threshold \in SimilarityThresholds
    /\ agent_a_persona = Scientist /\ agent_b_persona = Philosopher
    /\ topic = <<>>
    /\ status = IN_PROGRESS
    /\ current_round = 1
    /\ next_agent = "AgentA"
    /\ rounds_completed = 0
    /\ turns = <<>>
    /\ summary = <<>>
    /\ mem_round = 0
    /\ errors = <<>>
    /\ winner = None
    /\ judge_summary = <<>>
    /\ judge_reasoning = <<>>
    /\ turn_rejected = FALSE
    /\ rejection_reason = ""
    /\ next_step = "update_memory"
    /\ round_num = 0
    /\ last_result = NoResult

\* MemoryNode.update_memory(state, agent, persona, response) with the agents
\* taking turns, the similarity of each pair computed on its first use
MemoryUpdate ==
    /\ next_step = "update_memory"
    /\ Len(turns) < MaxSimilarityTurns
    /\ \E agent \in {LoopAgent(Len(turns) + 1)}, response \in SimilarityTexts :
          \E upd \in {UpdateMemory(turns, rounds_completed,
                                   TurnRecord(current_round, agent, GetPersona(agent),
                                              response),
                                   TooSimilar(response, turns, similarity_threshold))} :
             /\ turns' = upd.turns
             /\ rounds_completed' = upd.rounds_completed
             /\ \E mem \in {IF upd.ok THEN AddTurnRefresh(upd.turns, current_round)
                              ELSE [current_round |-> mem_round, summary |-> summary]} :
                    mem_round' = mem.current_round /\ summary' = mem.summary
             /\ last_result' = [agent |-> agent,
                                status |-> IF upd.ok THEN "success" ELSE "error",
                                error |-> IF upd.ok THEN "" ELSE RepetitionError,
                                response |-> response]
    /\ UNCHANGED <<config, topic, status, current_round, next_agent, judged,
                   turn_rejected, rejection_reason, next_step, round_num>>

SimilaritySpec == SimilarityInit /\ [][MemoryUpdate]_vars

\* the texts the state holds: the recorded ones and the last candidate
TextsInState == {turns[k].text : k \in 1..Len(turns)} \cup {last_result.response}

\* C24: similarity(a, a) = 1.0 for every text a, the empty and the
\* whitespace-only text included, and the cached value of a pair is the
\* computed one.
C24_SelfSimilarityIsOne ==
    \A a \in TextsInState :
        /\ FracEQ(CalculateSimilarity(a, a), <<1, 1>>)
        /\ (a \in ValidCandidates => Similarity(a, a) = CalculateSimilarity(a, a))

\* a whitespace-only candidate was rejected as a repetition of itself
C24_Witness ==
    /\ Len(turns) = 1
    /\ turns[1].text = BlankText
    /\ last_result.response = BlankText
    /\ last_result.error = RepetitionError

\* the turns the last candidate was compared with
PriorTurns ==
    IF last_result.status = "success" THEN SubSeq(turns, 1, Len(turns) - 1) ELSE turns

\* the words of a text as _calculate_similarity splits them
NormWords(text) == WordSet(Normalize(text))

\* the last candidate has words, and none of them is a word of a prior turn
SharesNoWord ==
    /\ last_result.status # "none"
    /\ NormWords(last_result.response) # {}
    /\ \A k \in 1..Len(PriorTurns) :
          /\ NormWords(PriorTurns[k].text) # {}
          /\ NormWords(PriorTurns[k].text) \cap NormWords(last_result.response) = {}

\* C25 (as stated): with similarity_threshold 0.8, a candidate that shares no
\* word with the prior turns is never rejected as a repetition.
C25_DisjointWordsNeverRepetition ==
    (similarity_threshold = <<80, 100>> /\ SharesNoWord) => last_result.status = "success"

\* C25: a candidate that shares no word with the prior turns is rejected as a
\* repetition exactly when the character-sequence ratio of its normalised
\* text and some prior turn's normalised text exceeds similarity_threshold.
C25_DisjointWordsCharacterRatio ==
    SharesNoWord =>
        (last_result.error = RepetitionError
            <=> \E k \in 1..Len(PriorTurns) :
                    FracGT(SeqRatio(Normalize(last_result.response),
                                    Normalize(PriorTurns[k].text)),
                           similarity_threshold))

\* at threshold 0.8 a re-punctuated copy, sharing no word with the only prior
\* turn, was rejected as a repetition
C25_Witness ==
    /\ similarity_threshold = <<80, 100>>
    /\ Len(turns) = 1
    /\ turns[1].text = V1
    /\ last_result.response = Repunctuated
    /\ last_result.error = RepetitionError
    /\ SharesNoWord

\* ------------------------------------------------------------------------
\* UserInputNode.run on any typed topic
\* ------------------------------------------------------------------------
\* what the user types: padding, a body, possibly a keyword, a tail
TypedTopics ==
    {pad \o body \o keyword \o tail :
        pad \in {<<>>, Chars(" ")},
        body \in {<<>>, Chars("AI?"), Chars("is data o"), Chars("is data ok"),
                  Rep("@", 10), Rep("y", 196), Rep("y", 197)},
        keyword \in {<<>>, Chars("spam"), Chars("XXX"), Chars("testtest")},
        tail \in {<<>>, Chars("  "), Chars(" #"), Chars(" now?")}}

TopicInit ==
    /\ driver = "graph"
    /\ total_rounds = MaxTotalRounds
    /\ similarity_threshold \in Thresholds
    /\ agent_a_persona = Scientist /\ agent_b_persona = Philosopher
    /\ topic = <<>>
    /\ status = INITIALIZED
    /\ current_round = 1
    /\ next_agent = "AgentA"
    /\ rounds_completed = 0
    /\ turns = <<>>
    /\ summary = <<>>
    /\ mem_round = 0
    /\ errors = <<>>
    /\ winner = None
    /\ judge_summary = <<>>
    /\ judge_reasoning = <<>>
    /\ turn_rejected = FALSE
    /\ rejection_reason = ""
    /\ next_step = "UserInputNode"
    /\ round_num = 0
    /\ last_result = NoResult

\* _user_input_wrapper / UserInputNode.run, with the result run returned
UserInputWrapper ==
    /\ next_step = "UserInputNode"
    /\ \E input \in TypedTopics :
          \E reason \in {ValidateTopic(input)} :
            IF reason # ""
            THEN /\ last_result' = [agent |-> None, status |-> "retry", error |-> reason,
                                    response |-> input]
                 /\ UNCHANGED <<topic, status, next_step>>
            ELSE /\ topic' = SanitizeTopic(input)
                 /\ status' = INITIALIZED
                 /\ next_step' = "RoundsControllerNode"
                 /\ last_result' = [agent |-> None, status |-> "success", error |-> "",
                                    response |-> input]
    /\ UNCHANGED <<config, current_round, next_agent, rounds_completed, memory, judged,
                   turn_rejected, rejection_reason, round_num>>

TopicSpec == TopicInit /\ [][UserInputWrapper]_vars

\* some listed keyword occurs in the lower-cased topic
HasKeyword(text) ==
    \E lowered \in {Lower(text)}, w \in InappropriateKeywords :
        \E i \in 1..(Len(lowered) - Len(w) + 1) : SubSeq(lowered, i, i + Len(w) - 1) = w

\* the outcome the ordered checks give a typed topic: the first failed check
TopicOutcome(text) ==
    CASE \A i \in 1..Len(text) : IsSpace(text[i]) -> "Topic cannot be empty"
      [] OTHER ->
         CASE Len(text) < 10 -> "Topic must be at least 10 characters long"
           [] OTHER ->
              CASE Len(text) > 200 -> "Topic must be less than 200 characters"
                [] OTHER ->
                   CASE HasKeyword(text) -> "Topic contains inappropriate content"
                     [] OTHER -> ""

\* C26: a typed topic is rejected for the first of: empty or whitespace-only,
\* shorter than 10 characters, longer than 200 characters, containing a
\* listed keyword; every other topic is accepted; a rejected topic makes run
\* return "retry" and leaves state.topic and state.status as they were.
C26_TopicValidation ==
    [][\E r \in {last_result'} : \E outcome \in {TopicOutcome(r.response)} :
          /\ r.error = outcome
          /\ r.status = (IF outcome = "" THEN "success" ELSE "retry")
          /\ (r.status = "retry" => topic' = topic /\ status' = status)]_vars

\* a short topic that holds a keyword was turned down for its length; the
\* node is to run again and state.topic is still empty
C26_Witness ==
    /\ last_result.status = "retry"
    /\ last_result.response = Chars("AI?spam")
    /\ last_result.error = "Topic must be at least 10 characters long"
    /\ topic = <<>>
    /\ next_step = "UserInputNode"

\* ------------------------------------------------------------------------
\* JudgeNode.run called again on the state it left
\* ------------------------------------------------------------------------
MaxRejudgeTurns == 2
MaxJudgeRuns == 2

RejudgeInit == JudgeInit /\ Len(turns) <= MaxRejudgeTurns

\* a second run that finds the debate judged and declares nobody
JudgeNodeRunAgainSkipping ==
    /\ next_step = "END"
    /\ Len(errors) < MaxJudgeRuns
    /\ winner' = None
    /\ judge_reasoning' = <<>>
    /\ judge_summary' = <<>>
    /\ UNCHANGED <<config, topic, status, current_round, next_agent, rounds_completed, memory,
                   errors, turn_rejected, rejection_reason, next_step, round_num, last_result>>

\* JudgeNode.run on a state JudgeNode.run has judged
JudgeNodeRunAgain ==
    /\ next_step = "END"
    /\ Len(errors) < MaxJudgeRuns
    /\ \E analysis \in {AnalyzeDebate(turns, topic, agent_a_persona, agent_b_persona,
                                        rounds_completed)} :
       \E w \in {DetermineWinner(agent_a_persona, agent_b_persona, analysis)} :
           /\ errors' = IF rounds_completed < total_rounds
                        THEN Append(errors,
                                    Chars("Debate incomplete: only ")
                                    \o IntToStr(rounds_completed) \o Chars("/")
                                    \o IntToStr(total_rounds) \o Chars(" rounds"))
                        ELSE errors
           /\ winner' = w[1]
           /\ judge_reasoning' = w[2]
           /\ judge_summary' = GenerateSummary(turns, topic, agent_a_persona,
                                               agent_b_persona, rounds_completed, analysis)
    /\ status' = COMPLETED
    /\ UNCHANGED <<config, topic, current_round, next_agent, rounds_completed, memory,
                   turn_rejected, rejection_reason, next_step, round_num, last_result>>

RejudgeSpec == RejudgeInit /\ [][JudgeNodeRun \/ JudgeNodeRunAgain]_vars

\* C27: JudgeNode.run leaves memory.turns, memory.summary, current_round,
\* next_agent, rounds_completed, topic and config as they were, and a second
\* run on the state the first left yields the same winner, reasoning and
\* summary.
C27_JudgeReadsOnly ==
    [][/\ UNCHANGED <<turns, summary, current_round, next_agent, rounds_completed, topic,
                      config>>
       /\ (next_step = "END" =>
              /\ winner' = winner
              /\ judge_reasoning' = judge_reasoning
              /\ judge_summary' = judge_summary)]_vars

\* an incomplete debate of two turns was judged twice: a winner is declared
\* and the incompleteness is recorded once per run
C27_Witness ==
    /\ next_step = "END"
    /\ Len(turns) = 2
    /\ Len(errors) = 2
    /\ winner \in Agents
    /\ judge_summary # <<>>

\* the similarities of the last candidate to the turns it was compared with
PriorSimilarities ==
    {CalculateSimilarity(last_result.response, PriorTurns[k].text) : k \in 1..Len(PriorTurns)}

\* C28: a candidate is rejected for repetition exactly when its similarity to
\* some prior turn is strictly greater than similarity_threshold; a
\* similarity equal to the threshold is accepted, so at similarity_threshold
\* 1.0 no candidate is rejected for repetition.
C28_StrictlyGreaterRejects ==
    last_result.status # "none" =>
        /\ last_result.error = RepetitionError
              <=> \E sim \in PriorSimilarities : sim[1] * similarity_threshold[2]
                                                     > similarity_threshold[1] * sim[2]
        /\ (\A sim \in PriorSimilarities : sim[1] * similarity_threshold[2]
                                                <= similarity_threshold[1] * sim[2])
              => last_result.status = "success"
        /\ similarity_threshold = <<1, 1>> => last_result.status = "success"

\* at threshold 1.0 an exact copy of the only prior turn was recorded
C28_Witness ==
    /\ similarity_threshold = <<1, 1>>
    /\ Len(turns) = 2
    /\ turns[1].text = V1
    /\ turns[2].text = V1
    /\ last_result.status = "success"
    /\ PriorSimilarities # {}
    /\ \A sim \in PriorSimilarities : FracEQ(sim, similarity_threshold)

\* the turns of another agent than p among the last four turns, oldest first
RecentOpponentTurns(p) ==
    SelectSeq(SubSeq(turns, IF Len(turns) > 4 THEN Len(turns) - 3 ELSE 1, Len(turns)),
              LAMBDA t : t.agent # p)

\* the line get_agent_context writes for a turn
ContextLine(t) == Chars("[") \o t.persona \o Chars("] ") \o t.text

\* C29: get_agent_context(p) is the summary line followed by one line per
\* turn, oldest first, for exactly the turns among the last 4 of memory whose
\* agent is not p: at most 4 lines, none for a turn older than these.
C29_ContextOfLastFour ==
    \A p \in Agents :
        \E opp \in {RecentOpponentTurns(p)}, context \in {GetAgentContext(turns, summary, p)} :
            /\ Len(opp) <= 4
            /\ context = Join(<<"\n">>,
                              <<Chars("Debate summary: ") \o summary>>
                              \o [k \in 1..Len(opp) |-> ContextLine(opp[k])])
            /\ CountOf(context, "\n") = Len(opp)

\* five turns are recorded, the first and the last four all AgentB's, and
\* the first differs from the others: AgentA's context lists four turns
C29_Witness ==
    /\ Len(turns) = 5
    /\ \A k \in 1..5 : turns[k].agent = "AgentB"
    /\ turns[1].text = V1
    /\ \A k \in 2..5 : turns[k].text # V1
    /\ Len(RecentOpponentTurns("AgentA")) = 4
    /\ RecentOpponentTurns("AgentB") = <<>>

\* ------------------------------------------------------------------------
\* The built-in response producer (AgentNode._generate_response)
\* ------------------------------------------------------------------------
MaxProducerRounds == 8
\* the controller is not run once current_round has reached MaxProducerRoundNo
MaxProducerRoundNo == 9

\* every response table holds four entries
ResponseEntries == 4

\* the table of a persona: four admissible, mutually dissimilar texts in the
\* place of the four entries
ScientistResponses ==
    <<V1, Chars("studies find clear harm"), Chars("evidence backs one rule"),
      Chars("analysis proves the case")>>

PhilosopherResponses ==
    <<V3, V4, Chars("justice is owed to each"), Chars("virtue guides every act")>>

\* AgentNode._get_demo_responses
GetDemoResponses(persona) ==
    IF persona = Scientist THEN ScientistResponses ELSE PhilosopherResponses

\* turn_number in _generate_response
TurnNumber(agent_name, cround) ==
    IF agent_name = "AgentA" THEN (cround + 1) \div 2 ELSE cround \div 2

\* response_index = min(turn_number - 1, len(responses) - 1)
ResponseIndex(agent_name, cround, n) == Smaller(TurnNumber(agent_name, cround) - 1, n - 1)

\* the 1-based position of responses[index]; a negative index counts from the end
EntryAt(index, n) == IF index >= 0 THEN index + 1 ELSE n + index + 1

\* AgentNode._generate_response: <<entry used, text>>
GenerateResponse(agent_name, persona, cround) ==
    With(GetDemoResponses(persona), LAMBDA responses :
        With(EntryAt(ResponseIndex(agent_name, cround, Len(responses)), Len(responses)),
             LAMBDA entry : <<entry, responses[entry]>>))

\* the number of times each agent's producer has been asked so far
Attempts ==
    IF "attempts" \in DOMAIN last_result THEN last_result.attempts ELSE [a \in Agents |-> 0]

\* AgentNode.run with the built-in producer, state.next_agent being nxt and
\* state.current_round being cround
ProducerRun(agent_name, nxt, cround) ==
    LET same == [status |-> "error", error |-> "Out of turn",
                 turns |-> turns, summary |-> summary, mem_round |-> mem_round,
                 rounds_completed |-> rounds_completed,
                 turn_rejected |-> turn_rejected, rejection_reason |-> rejection_reason,
                 response |-> <<>>, entry |-> 0, attempts |-> Attempts]
    IN  IF ~ValidateTurnOrder(agent_name, turns, nxt) THEN same
        ELSE With(GenerateResponse(agent_name, GetPersona(agent_name), cround), LAMBDA gen :
             With([same EXCEPT !.response = gen[2], !.entry = gen[1],
                               !.attempts[agent_name] = @ + 1], LAMBDA asked :
             With(ValidateResponse(gen[2]), LAMBDA reason :
                IF reason # ""
                THEN [asked EXCEPT !.status = "rejected", !.error = reason,
                                   !.turn_rejected = TRUE, !.rejection_reason = reason]
                ELSE With(UpdateMemory(turns, rounds_completed,
                                       TurnRecord(cround, agent_name, GetPersona(agent_name),
                                                  gen[2]),
                                       TooSimilar(gen[2], turns, similarity_threshold)),
                          LAMBDA upd :
                    [asked EXCEPT
                        !.status = IF upd.ok THEN "success" ELSE "error",
                        !.error  = IF upd.ok THEN "" ELSE RepetitionError,
                        !.turns  = upd.turns,
                        !.mem_round = IF upd.ok
                                      THEN AddTurnRefresh(upd.turns, cround).current_round
                                      ELSE mem_round,
                        !.summary = IF upd.ok
                                    THEN AddTurnRefresh(upd.turns, cround).summary
                                    ELSE summary,
                        !.rounds_completed = upd.rounds_completed]))))

\* the state changes of that run other than the driver's own
ApplyProducerRun(agent_name, res) ==
    /\ turns' = res.turns
    /\ summary' = res.summary
    /\ mem_round' = res.mem_round
    /\ turn_rejected' = res.turn_rejected
    /\ rejection_reason' = res.rejection_reason
    /\ last_result' = [agent |-> agent_name, status |-> res.status, error |-> res.error,
                       response |-> res.response, entry |-> res.entry,
                       attempts |-> res.attempts]

\* _rounds_controller_wrapper / RoundsControllerNode.run
ProducerController ==
    /\ driver = "graph"
    /\ next_step = "RoundsControllerNode"
    /\ IF CheckRoundLimit(rounds_completed, total_rounds)
       THEN /\ status' = COMPLETED
            /\ next_step' = "JudgeNode"
            /\ UNCHANGED <<current_round, next_agent>>
       ELSE LET nt == NextTurn(turns, current_round)
            IN  /\ nt[2] <= MaxProducerRoundNo
                /\ current_round' = nt[2]
                /\ next_agent' = nt[1]
                /\ next_step' = nt[1] \o "Node"
                /\ UNCHANGED status
    /\ UNCHANGED <<config, topic, rounds_completed, memory, judged, turn_rejected,
                   rejection_reason, round_num, last_result>>

\* _agent_a_wrapper / _agent_b_wrapper with the built-in producer
ProducerAgentNode ==
    /\ driver = "graph"
    /\ next_step \in AgentNodes
    /\ \E a \in Agents :
          /\ next_step = a \o "Node"
          /\ \E res \in {ProducerRun(a, next_agent, current_round)} :
                 /\ ApplyProducerRun(a, res)
                 /\ rounds_completed' = res.rounds_completed
    /\ next_step' = "RoundsControllerNode"
    /\ UNCHANGED <<config, topic, status, current_round, next_agent, judged, round_num>>

\* one iteration of DebateSystem.run's loop with the built-in producer
ProducerSystemLoop ==
    /\ driver = "system"
    /\ next_step = "DebateLoop"
    /\ round_num <= total_rounds
    /\ \E agent \in {LoopAgent(round_num)} :
           /\ next_agent' = agent
           /\ current_round' = round_num
           /\ \E res \in {ProducerRun(agent, agent, round_num)} :
                  /\ ApplyProducerRun(agent, res)
                  /\ rounds_completed' =
                         SystemRoundsCompleted(res.rounds_completed, res.status)
    /\ round_num' = round_num + 1
    /\ next_step' = IF round_num + 1 <= total_rounds THEN "DebateLoop" ELSE "JudgeNode"
    /\ UNCHANGED <<config, topic, status, judged>>

ProducerInit == Constructed(1..MaxProducerRounds, Thresholds)

ProducerNext ==
    \/ UserInputNodeRun
    \/ ProducerController
    \/ ProducerAgentNode
    \/ JudgeNodeRun
    \/ SystemStart
    \/ ProducerSystemLoop

ProducerSpec == ProducerInit /\ [][ProducerNext]_vars

\* C30: under either driver an agent's k-th attempt uses entry k of its
\* response table, the last entry once k exceeds the table.
C30_KthAttemptUsesEntryK ==
    "attempts" \in DOMAIN last_result =>
        last_result.entry = Smaller(last_result.attempts[last_result.agent], ResponseEntries)

\* C31: whenever status is Completed, a winner is declared and the Judge's
\* summary and reasoning are non-empty.
C31_CompletedIsJudged ==
    status = COMPLETED =>
        /\ winner \in Agents
        /\ judge_summary # <<>>
        /\ judge_reasoning # <<>>

\* C32: under either driver the number of turns recorded in memory is at
\* most total_rounds.
C32_TurnsWithinBudget == Len(turns) <= total_rounds

\* the budget is used up: total_rounds turns are recorded and the debate is
\* judged
C32_Witness ==
    /\ Len(turns) = total_rounds
    /\ total_rounds = MaxTotalRounds
    /\ next_step = "END"
    /\ winner \in Agents

\* the controller is to run and the attempt it last asked for recorded no turn
ControllerAfterRefused ==
    /\ driver = "graph"
    /\ next_step = "RoundsControllerNode"
    /\ last_result.status \in {"rejected", "error"}

\* C33: a run of the controller that follows an attempt which recorded no
\* turn names the same next_agent and the same current_round as the run
\* before that attempt.
C33_ControllerRepeatsDecision ==
    [][ControllerAfterRefused => (next_agent' = next_agent /\ current_round' = current_round)]_vars

\* C34: in every reachable state the two turn-order checks give every agent
\* the same verdict, and no attempt is reported out of turn while next_agent
\* names the agent that made it.
C34_TurnOrderChecksAgree ==
    /\ \A a \in Agents :
          ValidateTurnOrder(a, turns, next_agent) <=> ControllerValidateTurnOrder(next_agent, a)
    /\ ~(last_result.error = OutOfTurnError /\ last_result.agent = next_agent)

\* C35: for any two recorded turns i < j the similarity of the later text to
\* the earlier one is at most similarity_threshold, whoever wrote them.
C35_RecordedTurnsDissimilar ==
    \A j \in 1..Len(turns) : \A i \in 1..(j - 1) :
        ~FracGT(CalculateSimilarity(turns[j].text, turns[i].text), similarity_threshold)

\* three turns are recorded, the first and the third by the same agent, and
\* the third resembles the first without exceeding the threshold
C35_Witness ==
    /\ Len(turns) = 3
    /\ turns[1].agent = turns[3].agent
    /\ \E sim \in {CalculateSimilarity(turns[3].text, turns[1].text)} :
          sim[1] > 0 /\ ~FracGT(sim, similarity_threshold)

\* C36: every recorded turn has a round of at least 1, an agent that is
\* AgentA or AgentB, and a text that is non-empty after trimming and between
\* 20 and 1000 characters long.
C36_RecordedTurnsWellFormed ==
    \A k \in 1..Len(turns) :
        /\ turns[k].round \in Nat /\ turns[k].round >= 1
        /\ turns[k].agent \in {"AgentA", "AgentB"}
        /\ \E i \in 1..Len(turns[k].text) : ~IsSpace(turns[k].text[i])
        /\ Len(turns[k].text) >= 20
        /\ Len(turns[k].text) <= 1000

\* a turn of each agent is recorded, one of them holding a text that ends in
\* whitespace
C36_Witness ==
    /\ Len(turns) >= 2
    /\ \E k \in 1..Len(turns) : turns[k].agent = "AgentB"
    /\ \E k \in 1..Len(turns) : turns[k].agent = "AgentA" /\ turns[k].text = V2

\* the order of the statuses
StatusRank(st) ==
    CASE st = INITIALIZED -> 0
      [] st = IN_PROGRESS -> 1
      [] st = COMPLETED -> 2
      [] OTHER -> 3

\* C37: the status starts as Initialized and only moves forward: no step
\* takes it back to Initialized or away from Completed.
C37_StatusMovesForward ==
    /\ status = INITIALIZED
    /\ [][/\ StatusRank(status') >= StatusRank(status)
          /\ (status = COMPLETED => status' = COMPLETED)
          /\ (status' = INITIALIZED => status = INITIALIZED)]_vars

\* under the graph driver the controller completed the debate after turn
\* attempts and the Judge has run since: the status is still Completed
C37_Witness ==
    /\ driver = "graph"
    /\ status = COMPLETED
    /\ next_step = "END"
    /\ turns # <<>>

\* C38: state.current_round never decreases, and the rounds of the recorded
\* turns are non-decreasing in recording order.
C38_RoundsNeverGoBack ==
    [][/\ current_round' >= current_round
       /\ \A k \in 1..(Len(turns') - 1) : turns'[k].round <= turns'[k + 1].round]_vars

C38_Witness ==
    /\ Len(turns) >= 3
    /\ turns[1].round < turns[3].round
    /\ turns[1].round = turns[2].round
    /\ current_round >= turns[Len(turns)].round

\* C39: after UserInputNode.run accepted a topic, state.topic is non-empty,
\* has no leading or trailing whitespace, and passes _validate_topic.
C39_AcceptedTopicIsValid ==
    last_result.status = "success" =>
        /\ topic # <<>>
        /\ Strip(topic) = topic
        /\ ValidateTopic(topic) = ""

====
